---- MODULE Spec2Model ----
(***************************************************************************)
(* Execution state, register file, bulk memory helpers and syscall         *)
(* handlers of the RISC-V executor (crates/executor).                      *)
(*                                                                         *)
(* state      : the ExecutionState value (one record, one field per field  *)
(*              of the struct)                                             *)
(* fork_state : the ForkState of a running fork, or NoFork                 *)
(* tier       : the code path the build compiled into the bulk helpers     *)
(* last       : the last operation performed, its arguments, the state     *)
(*              before it and what it returned (history, read by the       *)
(*              properties only)                                           *)
(* ops        : number of operations performed so far                      *)
(* verified   : number of Verify syscalls that returned (history)          *)
(***************************************************************************)
EXTENDS Integers, Sequences, FiniteSets

VARIABLES state, fork_state, tier, last, ops, verified

vars == <<state, fork_state, tier, last, ops, verified>>

\* ------------------------------------------------------------------ bounds
\* Words of memory the model keeps (the program keeps MAXIMUM_ADDRESSES).
MemWords == 18
\* Longest bulk transfer, in words: two 8-word chunks plus a remainder.
MaxLen == 17
\* Operations per behaviour of the register specification.
MaxRegOps == 2
\* Operations per behaviour of the bulk-helper specification.
MaxSimdOps == 1
\* Operations per behaviour of the syscall/save specification.
MaxSysOps == 3
\* Operations per behaviour of the fork specification.
MaxForkOps == 5

\* ------------------------------------------------------------ MemoryRecord
MemoryRecord(v, s, t) == [value |-> v, shard |-> s, timestamp |-> t]

DefaultRecord == MemoryRecord(0, 0, 0)

\* Memory::default(): every word is the default record.
MemoryDefault == [i \in 0..(MemWords - 1) |-> DefaultRecord]

\* --------------------------------------------------------- ExecutionState
\* ExecutionState::new(pc_start)
new(pc_start) ==
    [ pc                       |-> pc_start,
      current_shard            |-> 1,
      memory                   |-> MemoryDefault,
      global_clk               |-> 0,
      clk                      |-> 0,
      uninitialized_memory     |-> <<>>,
      input_stream             |-> <<>>,
      input_stream_ptr         |-> 0,
      proof_stream_ptr         |-> 0,
      public_values_stream     |-> <<>>,
      public_values_stream_ptr |-> 0,
      syscall_counts           |-> <<>>,
      hot_registers            |-> [i \in 0..7 |-> DefaultRecord],
      cold_registers           |-> [i \in 0..23 |-> DefaultRecord] ]

\* ExecutionState::get_register(reg)
get_register(st, reg) ==
    IF reg < 8 THEN st.hot_registers[reg] ELSE st.cold_registers[reg - 8]

\* A set_register that forgets that x0 is hardwired to zero.
set_register_no_x0_guard(st, reg, record) ==
    IF reg < 8
      THEN [st EXCEPT !.hot_registers[reg] = record]
      ELSE [st EXCEPT !.cold_registers[reg - 8] = record]

\* A set_register whose hot/cold test is off by one at the boundary.
set_register_boundary(st, reg, record) ==
    IF reg = 0 THEN st
    ELSE IF reg <= 8
      THEN [st EXCEPT !.hot_registers[reg % 8] = record]
      ELSE [st EXCEPT !.cold_registers[reg - 8] = record]

\* ExecutionState::set_register(reg, record)
set_register(st, reg, record) ==
    IF reg = 0 THEN st
    ELSE IF reg < 8
      THEN [st EXCEPT !.hot_registers[reg] = record]
      ELSE [st EXCEPT !.cold_registers[reg - 8] = record]

\* ------------------------------------------------------------------ inputs
PcStarts == {0, 2097152}
Registers == 0..31
RegRecords == {DefaultRecord, MemoryRecord(5, 1, 4), MemoryRecord(2147483647, 2, 0)}
Tiers == {"avx2", "sse2", "scalar"}
NoFork == [active |-> FALSE]
NoOp == [op |-> "new"]

\* ------------------------------------------------- register specification
InitReg ==
    /\ \E pc_start \in PcStarts : state = new(pc_start)
    /\ fork_state = NoFork
    /\ tier = "scalar"
    /\ last = NoOp
    /\ ops = 0
    /\ verified = 0

SetRegister ==
    /\ ops < MaxRegOps
    /\ \E reg \in Registers, record \in RegRecords :
         /\ state' = set_register(state, reg, record)
         /\ last' = [op |-> "set_register", reg |-> reg, record |-> record,
                     pre |-> state]
    /\ ops' = ops + 1
    /\ UNCHANGED <<fork_state, tier, verified>>

GetRegister ==
    /\ ops < MaxRegOps
    /\ \E reg \in Registers :
         last' = [op |-> "get_register", reg |-> reg,
                  record |-> get_register(state, reg), pre |-> state]
    /\ ops' = ops + 1
    /\ UNCHANGED <<state, fork_state, tier, verified>>

NextReg == SetRegister \/ GetRegister

SpecReg == InitReg /\ [][NextReg]_vars

\* C1: register 0 reads as value 0 in every state reachable from
\* ExecutionState::new by set_register calls, whatever was written to it.
C1_RegisterZero == get_register(state, 0).value = 0

\* A state reached by writing a non-zero record to register 0.
C1_Witness ==
    /\ last.op = "set_register"
    /\ last.reg = 0
    /\ last.record.value # 0

\* C10: after set_register(r, rec) with r in 1..31, get_register(r) is rec,
\* every other register reads as before, and rec sits in the hot block at r
\* (r < 8) or in the cold block at r - 8 (r >= 8), the other block untouched.
C10_ReadYourWriteFrame ==
    (last.op = "set_register" /\ last.reg \in 1..31) =>
        /\ get_register(state, last.reg) = last.record
        /\ \A q \in Registers \ {last.reg} :
               get_register(state, q) = get_register(last.pre, q)
        /\ last.reg < 8 =>
               /\ state.hot_registers[last.reg] = last.record
               /\ state.cold_registers = last.pre.cold_registers
        /\ last.reg >= 8 =>
               /\ state.cold_registers[last.reg - 8] = last.record
               /\ state.hot_registers = last.pre.hot_registers

\* A write to register 8 (first cold slot) while register 7 (last hot slot)
\* holds a different, non-default record.
C10_Witness ==
    /\ last.op = "set_register"
    /\ last.reg = 8
    /\ get_register(last.pre, 7) # DefaultRecord
    /\ last.record # get_register(last.pre, 7)
    /\ last.record # DefaultRecord

\* ------------------------------------------------------ bulk memory helpers
\* The body of the write loops: the three field stores of one iteration, for
\* each (dst, value) of `stores` in program order.
RECURSIVE StoreRecords(_, _, _, _)
StoreRecords(memory, stores, shard, timestamp) ==
    IF stores = <<>> THEN memory
    ELSE LET s == Head(stores)
             value_stored == [memory EXCEPT ![s.dst].value = s.value]
             shard_stored == [value_stored EXCEPT ![s.dst].shard = shard]
             stamp_stored == [shard_stored EXCEPT ![s.dst].timestamp = timestamp]
         IN  StoreRecords(stamp_stored, Tail(stores), shard, timestamp)

\* The body of the copy loops: the one field store of one iteration, for
\* each (dst, src) of `stores` in program order.
RECURSIVE StoreValues(_, _, _)
StoreValues(dst_memory, src_memory, stores) ==
    IF stores = <<>> THEN dst_memory
    ELSE LET s == Head(stores)
         IN  StoreValues([dst_memory EXCEPT ![s.dst].value = src_memory[s.src].value],
                         src_memory, Tail(stores))

\* simd_read_memory_values, AVX2 block: 8 words per chunk, then the remainder.
simd_read_avx2(memory, addr, size_words) ==
    LET chunks == size_words \div 8
        remainder == size_words % 8
        start_idx == chunks * 8
        chunked == [k \in 1..(chunks * 8) |->
                      LET i == (k - 1) \div 8
                          j == (k - 1) % 8
                          src_idx == (addr \div 4) + i * 8
                      IN  memory[src_idx + j].value]
        rest == [k \in 1..remainder |->
                      LET i == k - 1
                          src_idx == (addr \div 4) + start_idx + i
                      IN  memory[src_idx].value]
    IN  chunked \o rest

\* simd_read_memory_values, SSE2 block: 4 words per chunk, then the remainder.
simd_read_sse2(memory, addr, size_words) ==
    LET chunks == size_words \div 4
        remainder == size_words % 4
        start_idx == chunks * 4
        chunked == [k \in 1..(chunks * 4) |->
                      LET i == (k - 1) \div 4
                          j == (k - 1) % 4
                          src_idx == (addr \div 4) + i * 4
                      IN  memory[src_idx + j].value]
        rest == [k \in 1..remainder |->
                      LET i == k - 1
                          src_idx == (addr \div 4) + start_idx + i
                      IN  memory[src_idx].value]
    IN  chunked \o rest

\* simd_read_memory_values, scalar fallback loop.
simd_read_scalar(memory, addr, size_words) ==
    [k \in 1..size_words |->
        LET i == k - 1
            src_idx == (addr \div 4) + i
        IN  memory[src_idx].value]

\* simd_read_memory_values as compiled: one of the three blocks.
simd_read_memory_values(memory, addr, size_words) ==
    CASE tier = "avx2" -> simd_read_avx2(memory, addr, size_words)
      [] tier = "sse2" -> simd_read_sse2(memory, addr, size_words)
      [] OTHER         -> simd_read_scalar(memory, addr, size_words)

\* simd_write_memory_values, AVX2 block.
simd_write_avx2(memory, addr, values, shard, timestamp) ==
    LET size_words == Len(values)
        chunks == size_words \div 8
        remainder == size_words % 8
        start_idx == chunks * 8
        chunked == [k \in 1..(chunks * 8) |->
                      LET i == (k - 1) \div 8
                          j == (k - 1) % 8
                          dst_idx == (addr \div 4) + i * 8
                          value_idx == i * 8 + j
                      IN  [dst |-> dst_idx + j, value |-> values[value_idx + 1]]]
        rest == [k \in 1..remainder |->
                      LET i == k - 1
                          dst_idx == (addr \div 4) + start_idx + i
                      IN  [dst |-> dst_idx, value |-> values[start_idx + i + 1]]]
    IN  StoreRecords(memory, chunked \o rest, shard, timestamp)

\* An SSE2 write block whose remainder loop reads values[i], not
\* values[start_idx + i].
simd_write_sse2_remainder_from_zero(memory, addr, values, shard, timestamp) ==
    LET size_words == Len(values)
        chunks == size_words \div 4
        remainder == size_words % 4
        start_idx == chunks * 4
        chunked == [k \in 1..(chunks * 4) |->
                      LET i == (k - 1) \div 4
                          j == (k - 1) % 4
                          dst_idx == (addr \div 4) + i * 4
                          value_idx == i * 4 + j
                      IN  [dst |-> dst_idx + j, value |-> values[value_idx + 1]]]
        rest == [k \in 1..remainder |->
                      LET i == k - 1
                          dst_idx == (addr \div 4) + start_idx + i
                      IN  [dst |-> dst_idx, value |-> values[i + 1]]]
    IN  StoreRecords(memory, chunked \o rest, shard, timestamp)

\* simd_write_memory_values, SSE2 block.
simd_write_sse2(memory, addr, values, shard, timestamp) ==
    LET size_words == Len(values)
        chunks == size_words \div 4
        remainder == size_words % 4
        start_idx == chunks * 4
        chunked == [k \in 1..(chunks * 4) |->
                      LET i == (k - 1) \div 4
                          j == (k - 1) % 4
                          dst_idx == (addr \div 4) + i * 4
                          value_idx == i * 4 + j
                      IN  [dst |-> dst_idx + j, value |-> values[value_idx + 1]]]
        rest == [k \in 1..remainder |->
                      LET i == k - 1
                          dst_idx == (addr \div 4) + start_idx + i
                      IN  [dst |-> dst_idx, value |-> values[start_idx + i + 1]]]
    IN  StoreRecords(memory, chunked \o rest, shard, timestamp)

\* simd_write_memory_values, scalar fallback loop.
simd_write_scalar(memory, addr, values, shard, timestamp) ==
    LET size_words == Len(values)
        stores == [k \in 1..size_words |->
                      LET i == k - 1
                          dst_idx == (addr \div 4) + i
                      IN  [dst |-> dst_idx, value |-> values[i + 1]]]
    IN  StoreRecords(memory, stores, shard, timestamp)

\* A bulk write that indexes memory by the loop counter alone, dropping the
\* base index addr / 4.
simd_write_no_base(memory, addr, values, shard, timestamp) ==
    simd_write_scalar(memory, 0, values, shard, timestamp)

\* simd_write_memory_values as compiled: one of the three blocks.
simd_write_memory_values(memory, addr, values, shard, timestamp) ==
    CASE tier = "avx2" -> simd_write_avx2(memory, addr, values, shard, timestamp)
      [] tier = "sse2" -> simd_write_sse2(memory, addr, values, shard, timestamp)
      [] OTHER         -> simd_write_scalar(memory, addr, values, shard, timestamp)

\* An AVX2 copy block whose remainder starts at chunks * 4.
simd_copy_avx2_short_start(src_memory, dst_memory, src_addr, dst_addr, size_words) ==
    LET chunks == size_words \div 8
        remainder == size_words % 8
        start_idx == chunks * 4
        chunked == [k \in 1..(chunks * 8) |->
                      LET i == (k - 1) \div 8
                          j == (k - 1) % 8
                          src_idx == (src_addr \div 4) + i * 8
                          dst_idx == (dst_addr \div 4) + i * 8
                      IN  [dst |-> dst_idx + j, src |-> src_idx + j]]
        rest == [k \in 1..remainder |->
                      LET i == k - 1
                          src_idx == (src_addr \div 4) + start_idx + i
                          dst_idx == (dst_addr \div 4) + start_idx + i
                      IN  [dst |-> dst_idx, src |-> src_idx]]
    IN  StoreValues(dst_memory, src_memory, chunked \o rest)

\* simd_copy_memory_values, AVX2 block.
simd_copy_avx2(src_memory, dst_memory, src_addr, dst_addr, size_words) ==
    LET chunks == size_words \div 8
        remainder == size_words % 8
        start_idx == chunks * 8
        chunked == [k \in 1..(chunks * 8) |->
                      LET i == (k - 1) \div 8
                          j == (k - 1) % 8
                          src_idx == (src_addr \div 4) + i * 8
                          dst_idx == (dst_addr \div 4) + i * 8
                      IN  [dst |-> dst_idx + j, src |-> src_idx + j]]
        rest == [k \in 1..remainder |->
                      LET i == k - 1
                          src_idx == (src_addr \div 4) + start_idx + i
                          dst_idx == (dst_addr \div 4) + start_idx + i
                      IN  [dst |-> dst_idx, src |-> src_idx]]
    IN  StoreValues(dst_memory, src_memory, chunked \o rest)

\* simd_copy_memory_values, SSE2 block.
simd_copy_sse2(src_memory, dst_memory, src_addr, dst_addr, size_words) ==
    LET chunks == size_words \div 4
        remainder == size_words % 4
        start_idx == chunks * 4
        chunked == [k \in 1..(chunks * 4) |->
                      LET i == (k - 1) \div 4
                          j == (k - 1) % 4
                          src_idx == (src_addr \div 4) + i * 4
                          dst_idx == (dst_addr \div 4) + i * 4
                      IN  [dst |-> dst_idx + j, src |-> src_idx + j]]
        rest == [k \in 1..remainder |->
                      LET i == k - 1
                          src_idx == (src_addr \div 4) + start_idx + i
                          dst_idx == (dst_addr \div 4) + start_idx + i
                      IN  [dst |-> dst_idx, src |-> src_idx]]
    IN  StoreValues(dst_memory, src_memory, chunked \o rest)

\* simd_copy_memory_values, scalar fallback loop.
simd_copy_scalar(src_memory, dst_memory, src_addr, dst_addr, size_words) ==
    LET stores == [k \in 1..size_words |->
                      LET i == k - 1
                          src_idx == (src_addr \div 4) + i
                          dst_idx == (dst_addr \div 4) + i
                      IN  [dst |-> dst_idx, src |-> src_idx]]
    IN  StoreValues(dst_memory, src_memory, stores)

\* simd_copy_memory_values as compiled: one of the three blocks.
simd_copy_memory_values(src_memory, dst_memory, src_addr, dst_addr, size_words) ==
    CASE tier = "avx2" -> simd_copy_avx2(src_memory, dst_memory, src_addr, dst_addr, size_words)
      [] tier = "sse2" -> simd_copy_sse2(src_memory, dst_memory, src_addr, dst_addr, size_words)
      [] OTHER         -> simd_copy_scalar(src_memory, dst_memory, src_addr, dst_addr, size_words)

\* -------------------------------------------- bulk helper specification
\* Byte addresses tried: word 0, word 1 through an unaligned address, and the
\* last word through an unaligned address.
SimdAddrs == {0, 6, 4 * (MemWords - 1) + 3}
\* The (shard, timestamp) pairs a write is given.
Stamps == {<<1, 4>>, <<2, 0>>}
\* The value list of n words; every position holds a different value.
Values(n) == [i \in 1..n |-> 100 + i]
\* The memory a bulk write of every word at shard 1, timestamp 4 leaves:
\* word i holds (1000 + i, 1, 4).
FilledMemory ==
    simd_write_scalar(MemoryDefault, 0, [k \in 1..MemWords |-> 1000 + (k - 1)], 1, 4)
\* The source slice of a copy: another memory, every word distinct.
SourceMemory == [i \in 0..(MemWords - 1) |-> MemoryRecord(2000 + i, 3, 8)]
\* A memory whose fields hold no u32: a field that differs from -1 after an
\* operation ran on it is a field the operation stored to.
ProbeMemory == [i \in 0..(MemWords - 1) |-> MemoryRecord(-1, -1, -1)]
ValueStored(after) == {i \in DOMAIN after : after[i].value # -1}
StampStored(after) ==
    {i \in DOMAIN after : after[i].shard # -1 /\ after[i].timestamp # -1}

\* The caller's precondition: the word range lies inside memory.
InRange(addr, size_words) == (addr \div 4) + size_words <= MemWords

InitSimd ==
    /\ \E pc_start \in PcStarts, memory \in {MemoryDefault, FilledMemory} :
          state = [new(pc_start) EXCEPT !.memory = memory]
    /\ fork_state = NoFork
    /\ tier \in Tiers
    /\ last = NoOp
    /\ ops = 0
    /\ verified = 0

SimdRead ==
    /\ ops < MaxSimdOps
    /\ \E addr \in SimdAddrs, size_words \in 0..MaxLen :
         /\ InRange(addr, size_words)
         /\ last' = [op |-> "read", addr |-> addr, size_words |-> size_words,
                     pre |-> state.memory,
                     ret |-> simd_read_memory_values(state.memory, addr, size_words)]
    /\ ops' = ops + 1
    /\ UNCHANGED <<state, fork_state, tier, verified>>

SimdWrite ==
    /\ ops < MaxSimdOps
    /\ \E addr \in SimdAddrs, size_words \in 0..MaxLen, stamp \in Stamps :
         /\ InRange(addr, size_words)
         /\ state' = [state EXCEPT !.memory =
                simd_write_memory_values(@, addr, Values(size_words), stamp[1], stamp[2])]
         /\ last' = [op |-> "write", addr |-> addr, values |-> Values(size_words),
                     shard |-> stamp[1], timestamp |-> stamp[2],
                     pre |-> state.memory,
                     probe |-> simd_write_memory_values(ProbeMemory, addr,
                                   Values(size_words), stamp[1], stamp[2])]
    /\ ops' = ops + 1
    /\ UNCHANGED <<fork_state, tier, verified>>

SimdCopy ==
    /\ ops < MaxSimdOps
    /\ \E src_addr \in SimdAddrs, dst_addr \in SimdAddrs, size_words \in 0..MaxLen :
         /\ InRange(src_addr, size_words)
         /\ InRange(dst_addr, size_words)
         /\ state' = [state EXCEPT !.memory =
                simd_copy_memory_values(SourceMemory, @, src_addr, dst_addr, size_words)]
         /\ last' = [op |-> "copy", src_memory |-> SourceMemory,
                     src_addr |-> src_addr, dst_addr |-> dst_addr,
                     size_words |-> size_words,
                     pre |-> state.memory,
                     probe |-> simd_copy_memory_values(SourceMemory, ProbeMemory,
                                   src_addr, dst_addr, size_words)]
    /\ ops' = ops + 1
    /\ UNCHANGED <<fork_state, tier, verified>>

NextSimd == SimdRead \/ SimdWrite \/ SimdCopy

SpecSimd == InitSimd /\ [][NextSimd]_vars

\* C2: on the same memory and arguments the 8-word block, the 4-word block
\* and the scalar loop of each helper give the same result (the returned
\* vector for read, the final memory for write and copy), and that is the
\* result the compiled helper produced.
C2_TierEquivalence ==
    /\ last.op = "read" =>
          LET a == simd_read_avx2(last.pre, last.addr, last.size_words)
              b == simd_read_sse2(last.pre, last.addr, last.size_words)
              c == simd_read_scalar(last.pre, last.addr, last.size_words)
          IN  a = c /\ b = c /\ last.ret = c
    /\ last.op = "write" =>
          LET a == simd_write_avx2(last.pre, last.addr, last.values, last.shard, last.timestamp)
              b == simd_write_sse2(last.pre, last.addr, last.values, last.shard, last.timestamp)
              c == simd_write_scalar(last.pre, last.addr, last.values, last.shard, last.timestamp)
          IN  a = c /\ b = c /\ state.memory = c
    /\ last.op = "copy" =>
          LET a == simd_copy_avx2(last.src_memory, last.pre, last.src_addr, last.dst_addr, last.size_words)
              b == simd_copy_sse2(last.src_memory, last.pre, last.src_addr, last.dst_addr, last.size_words)
              c == simd_copy_scalar(last.src_memory, last.pre, last.src_addr, last.dst_addr, last.size_words)
          IN  a = c /\ b = c /\ state.memory = c

\* A copy of two 8-word chunks plus a remainder, run by the 8-word block,
\* that changed memory.
C2_Witness ==
    /\ last.op = "copy"
    /\ tier = "avx2"
    /\ last.size_words = 17
    /\ last.dst_addr = 6
    /\ state.memory # last.pre

\* C3: every word whose value a bulk write or copy stored also had its shard
\* and timestamp stored by that operation.
C3_WriteStoresWholeRecord ==
    last.op \in {"write", "copy"} =>
        ValueStored(last.probe) \subseteq StampStored(last.probe)

\* The shard/timestamp pair of `after` is after that of `before`: a later
\* shard, or the same shard and a later timestamp.
Advances(before, after) ==
    \/ after.shard > before.shard
    \/ after.shard = before.shard /\ after.timestamp > before.timestamp

\* C4: every word whose value an operation stored holds, after it, a
\* (shard, timestamp) pair strictly after the pair it held before.
C4_TimestampMonotonic ==
    last.op \in {"write", "copy"} =>
        \A i \in ValueStored(last.probe) : Advances(last.pre[i], state.memory[i])

\* C6: after simd_write_memory_values(memory, addr, values, shard, timestamp)
\* word addr/4 + i is (values[i], shard, timestamp) for every i, and every
\* other word is as before; an empty list changes nothing.
C6_WritePostcondition ==
    last.op = "write" =>
        LET base == last.addr \div 4
            n == Len(last.values)
        IN  /\ \A i \in 0..(MemWords - 1) :
                  IF base <= i /\ i < base + n
                    THEN state.memory[i] =
                           MemoryRecord(last.values[i - base + 1], last.shard, last.timestamp)
                    ELSE state.memory[i] = last.pre[i]
            /\ n = 0 => state.memory = last.pre
            /\ DOMAIN state.memory = DOMAIN last.pre

\* A write of a chunk multiple plus a remainder, from word 1, over words that
\* held other records, leaving word 0 outside the range.
C6_Witness ==
    /\ last.op = "write"
    /\ last.addr = 6
    /\ Len(last.values) = 9
    /\ last.pre = FilledMemory
    /\ last.shard = 2
    /\ state.memory[0] = FilledMemory[0]
    /\ state.memory[9].value = 109

\* ------------------------------------------------------- syscall handlers
None == [some |-> FALSE]

\* VerifySyscall::execute(ctx, code, arg1, arg2): the state the context is
\* left with and the value returned.
VerifySyscall_execute(st, code, arg1, arg2) == [state |-> st, ret |-> None]

\* CommitSyscall::execute(ctx, code, arg1, arg2)
CommitSyscall_execute(st, code, arg1, arg2) == [state |-> st, ret |-> None]

\* CommitDeferredSyscall::execute(ctx, code, arg1, arg2)
CommitDeferredSyscall_execute(st, code, arg1, arg2) == [state |-> st, ret |-> None]

\* ExecutionState::save(file): serialize_into(..).unwrap(), flush()?, seek()?.
\* The three flags say which of the steps succeed on this file.
save(st, serialize_ok, flush_ok, seek_ok) ==
    [ state  |-> st,
      result |-> IF ~serialize_ok THEN "panic"
                 ELSE IF ~flush_ok THEN "Err"
                 ELSE IF ~seek_ok THEN "Err"
                 ELSE "Ok" ]

\* ------------------------------------------ syscall and save specification
\* Raw 32-bit syscall arguments: a pointer and a length in bytes.
Arg1s == {0, 8}
Arg2s == {0, 4, 32}
\* Public values already in the stream when the handlers run.
EarlierStreams == {<<>>, <<7, 9>>}

\* The bytes of the region of `len` bytes at byte address `ptr`, little-endian
\* within each word.
RegionBytes(memory, ptr, len) ==
    [k \in 1..len |->
        LET a == ptr + (k - 1)
        IN  (memory[a \div 4].value \div (256 ^ (a % 4))) % 256]

InitSys ==
    /\ \E pc_start \in PcStarts, stream \in EarlierStreams :
          state = [new(pc_start) EXCEPT !.public_values_stream = stream]
    /\ fork_state = NoFork
    /\ tier = "scalar"
    /\ last = NoOp
    /\ ops = 0
    /\ verified = 0

Verify ==
    /\ ops < MaxSysOps
    /\ \E arg1 \in Arg1s, arg2 \in Arg2s :
         LET r == VerifySyscall_execute(state, "VERIFY_SP1_PROOF", arg1, arg2)
         IN  /\ state' = r.state
             /\ last' = [op |-> "verify", arg1 |-> arg1, arg2 |-> arg2,
                         ret |-> r.ret, pre |-> state]
    /\ ops' = ops + 1
    /\ verified' = verified + 1
    /\ UNCHANGED <<fork_state, tier>>

Commit ==
    /\ ops < MaxSysOps
    /\ \E arg1 \in Arg1s, arg2 \in Arg2s :
         LET r == CommitSyscall_execute(state, "COMMIT", arg1, arg2)
         IN  /\ state' = r.state
             /\ last' = [op |-> "commit", arg1 |-> arg1, arg2 |-> arg2,
                         ret |-> r.ret, pre |-> state]
    /\ ops' = ops + 1
    /\ UNCHANGED <<fork_state, tier, verified>>

CommitDeferred ==
    /\ ops < MaxSysOps
    /\ \E arg1 \in Arg1s, arg2 \in Arg2s :
         LET r == CommitDeferredSyscall_execute(state, "COMMIT_DEFERRED_PROOFS", arg1, arg2)
         IN  /\ state' = r.state
             /\ last' = [op |-> "commit_deferred", arg1 |-> arg1, arg2 |-> arg2,
                         ret |-> r.ret, pre |-> state]
    /\ ops' = ops + 1
    /\ UNCHANGED <<fork_state, tier, verified>>

Save ==
    /\ ops < MaxSysOps
    /\ \E serialize_ok \in BOOLEAN, flush_ok \in BOOLEAN, seek_ok \in BOOLEAN :
         LET r == save(state, serialize_ok, flush_ok, seek_ok)
         IN  /\ state' = r.state
             /\ last' = [op |-> "save", serialize_ok |-> serialize_ok,
                         flush_ok |-> flush_ok, seek_ok |-> seek_ok,
                         result |-> r.result, pre |-> state]
    /\ ops' = ops + 1
    /\ UNCHANGED <<fork_state, tier, verified>>

NextSys == Verify \/ Commit \/ CommitDeferred \/ Save

SpecSys == InitSys /\ [][NextSys]_vars

\* C7: proof_stream_ptr equals the number of Verify calls that returned:
\* each Verify advances it by one and no other handler changes it.
C7_VerifyAdvancesCursor == state.proof_stream_ptr = verified

\* C8: after Commit, public_values_stream is the stream before the call
\* followed by the bytes of the declared region, and nothing is returned.
C8_CommitAppends ==
    last.op = "commit" =>
        /\ last.ret = None
        /\ state.public_values_stream =
               last.pre.public_values_stream
                 \o RegionBytes(last.pre.memory, last.arg1, last.arg2)

\* C9: a save in which serialization, flush or seek fails returns an error
\* result, and after any save the state is what it was before.
C9_SaveSurfacesFailure ==
    last.op = "save" =>
        /\ state = last.pre
        /\ (~last.serialize_ok \/ ~last.flush_ok \/ ~last.seek_ok) =>
               last.result = "Err"

\* ---------------------------------------------------------- fork / restore
Some(record) == [some |-> TRUE, record |-> record]

\* fork(): the ForkState of a fork taken in state `st`, its memory_diff empty.
fork(st, executor_mode) ==
    [ active        |-> TRUE,
      global_clk    |-> st.global_clk,
      clk           |-> st.clk,
      pc            |-> st.pc,
      memory_diff   |-> <<>>,
      executor_mode |-> executor_mode ]

\* The diff after the words addr/4 .. addr/4 + size_words - 1 are about to be
\* written: a word not yet in the diff enters it with the record it holds now,
\* a word already in it keeps its entry (first write wins).
record_diff(fs, memory, addr, size_words) ==
    IF ~fs.active THEN fs
    ELSE LET touched == {4 * ((addr \div 4) + i) : i \in 0..(size_words - 1)}
             diff == fs.memory_diff
         IN  [fs EXCEPT !.memory_diff =
                [a \in (DOMAIN diff) \union touched |->
                    IF a \in DOMAIN diff THEN diff[a] ELSE Some(memory[a \div 4])]]

\* One engine step that stores `values` at `addr`: the diff is recorded, the
\* words are written with the current shard and clock, then the clocks and
\* the program counter advance.
execute_store(st, fs, addr, values) ==
    [ fork_state |-> record_diff(fs, st.memory, addr, Len(values)),
      state      |-> [st EXCEPT
                        !.memory = simd_write_memory_values(@, addr, values,
                                       st.current_shard, st.clk),
                        !.clk = @ + 4,
                        !.global_clk = @ + 4,
                        !.pc = @ + 4] ]

\* restore(fork_state): every word of memory_diff gets its recorded record
\* back (the default record where it was absent), then global_clk, clk and pc
\* are reset to the captured values.
restore(st, fs) ==
    LET diff == fs.memory_diff
    IN  [st EXCEPT
           !.memory = [i \in DOMAIN st.memory |->
                          IF 4 * i \in DOMAIN diff
                            THEN IF diff[4 * i].some THEN diff[4 * i].record
                                 ELSE DefaultRecord
                            ELSE st.memory[i]],
           !.global_clk = fs.global_clk,
           !.clk = fs.clk,
           !.pc = fs.pc]

\* -------------------------------------------------------- fork specification
ForkAddrs == {0, 4, 6}
ForkLens == {1, 2}
ExecutorModes == {"Simple", "Trace"}
\* The values a store writes at clock c: different at every clock.
StoredAtClock(n, c) == [i \in 1..n |-> 10 * c + i]

InitFork ==
    /\ \E pc_start \in PcStarts : state = new(pc_start)
    /\ fork_state = NoFork
    /\ tier \in Tiers
    /\ last = [op |-> "new", pre |-> new(0), at_fork |-> new(0),
               written |-> {}, rewritten |-> FALSE]
    /\ ops = 0
    /\ verified = 0

Store ==
    /\ ops < MaxForkOps
    /\ \E addr \in ForkAddrs, size_words \in ForkLens :
         LET r == execute_store(state, fork_state, addr,
                                StoredAtClock(size_words, state.global_clk))
             words == {(addr \div 4) + i : i \in 0..(size_words - 1)}
         IN  /\ state' = r.state
             /\ fork_state' = r.fork_state
             /\ last' = [last EXCEPT
                           !.op = "store", !.pre = state,
                           !.written = IF fork_state.active THEN @ \union words ELSE @,
                           !.rewritten = @ \/ (fork_state.active
                                               /\ words \intersect last.written # {})]
    /\ ops' = ops + 1
    /\ UNCHANGED <<tier, verified>>

Fork ==
    /\ ops < MaxForkOps
    /\ ~fork_state.active
    /\ \E executor_mode \in ExecutorModes : fork_state' = fork(state, executor_mode)
    /\ last' = [op |-> "fork", pre |-> state, at_fork |-> state,
                written |-> {}, rewritten |-> FALSE]
    /\ ops' = ops + 1
    /\ UNCHANGED <<state, tier, verified>>

Restore ==
    /\ ops < MaxForkOps
    /\ fork_state.active
    /\ state' = restore(state, fork_state)
    /\ fork_state' = NoFork
    /\ last' = [last EXCEPT !.op = "restore", !.pre = state]
    /\ ops' = ops + 1
    /\ UNCHANGED <<tier, verified>>

NextFork == Store \/ Fork \/ Restore

SpecFork == InitFork /\ [][NextFork]_vars

C5_WitnessImmediate ==
    /\ last.op = "restore"
    /\ last.written = {}
    /\ last.at_fork.memory # MemoryDefault

====
